---- MODULE Spec2Model ----
(***************************************************************************)
(* zdbg: an interactive ptrace debugger (src/src/main.rs, src/src/dbg.rs). *)
(*                                                                         *)
(* Two processes are modelled: the debugger (the command loop of run_dbg   *)
(* and the handlers of ZDbg<NotRunning> / ZDbg<Running>) and the traced    *)
(* child.  A handler is one step up to the point where it blocks in        *)
(* waitpid; the step after the wait is taken when the child has stopped or *)
(* terminated.  The child executes one instruction per step.               *)
(*                                                                         *)
(* A token is a sequence of one-character strings, a command line is a     *)
(* sequence of tokens (what main.rs:27-28 hands to do_cmd).  A memory word *)
(* is a tuple of WordBytes bytes, lowest-order byte first.                  *)
(***************************************************************************)
EXTENDS Integers, Sequences, FiniteSets, TLC

VARIABLES
    pc,      \* position of the debugger: "prompt", "run_wait", "wait_child",
             \* "exit_wait", or a final one: "done", "error", "panic"
    state,   \* run_dbg's `state`: "NotRunning", "Running", "Exit"
    info,    \* the DbgInfo record
    procs,   \* the children forked so far; the pid of a child is its index
    image,   \* the code bytes of the target executable, by address
    rl,      \* what the last readline returned: "none", "line", "interrupted", "eof", "error"
    cmd,     \* the token vector of the command dispatched last
    ops,     \* the process operations (fork, ptrace, waitpid) issued for that command
    res      \* the Result of the last handler: "none", "Ok", or the error message

vars == <<pc, state, info, procs, image, rl, cmd, ops, res>>

---------------------------------------------------------------------------
(* Bounds *)

MaxForks == 2    \* children forked in one session
ProgLen == 3     \* bytes of code in the target executable

---------------------------------------------------------------------------
(* Constants of the program and of the machine *)

INT3 == 204             \* the trap opcode 0xcc
WordBytes == 8          \* brk_val: i64
UsizeHexDigits == 16    \* hex digits that fit a usize

Opcodes == {144, INT3}  \* nop, int3
Images == [0 .. ProgLen - 1 -> Opcodes]

None == <<>>
Some(a) == <<a>>

ZeroWord == [i \in 1 .. WordBytes |-> 0]

---------------------------------------------------------------------------
(* Command tokens *)

RunTok == {<<"r", "u", "n">>, <<"r">>}
BreakTok == {<<"b", "r", "e", "a", "k">>, <<"b">>}
ContinueTok == {<<"c", "o", "n", "t", "i", "n", "u", "e">>, <<"c">>}
RegistersTok == {<<"r", "e", "g", "i", "s", "t", "e", "r", "s">>, <<"r", "e", "g", "s">>}
StepiTok == {<<"s", "t", "e", "p", "i">>, <<"s">>}
ExitTok == {<<"e", "x", "i", "t">>}
HelpTok == {<<"h", "e", "l", "p">>, <<"h">>}
OtherTok == {<<"q", "u", "i", "t">>, <<"R", "U", "N">>}

FirstTokens ==
    RunTok \cup BreakTok \cup ContinueTok \cup RegistersTok \cup StepiTok
        \cup ExitTok \cup HelpTok \cup OtherTok

ArgTokens ==
    { <<"0", "x", "1">>,                \* 0x1
      <<"0", "x", "2">>,                \* 0x2
      <<"0", "x", "0", "1">>,           \* 0x01
      <<"0", "x", "1", "F">>,           \* 0x1F
      <<"0", "x", "1", "f">>,           \* 0x1f
      <<"0", "x">>,                     \* no digits
      <<"0", "x", "g">>,                \* not a hex digit
      <<"0", "x", "+", "1">>,           \* a sign before the digits
      <<"0", "x", "-", "1">>,
      <<"0", "X", "1">>,                \* another prefix
      <<"1", "2">>,                     \* no prefix
      <<"1">>,                          \* shorter than the prefix
      <<"0", "x", "1", "0", "0", "0", "0", "0", "0", "0", "0",
        "0", "0", "0", "0", "0", "0", "0", "0">> }   \* 2^64

Lines ==
    {<<>>} \cup {<<t>> : t \in FirstTokens}
        \cup {<<b, a>> : b \in BreakTok, a \in ArgTokens}

---------------------------------------------------------------------------
(* get_break_addr: parsing the address of a break command *)

DigitValue(c) ==
    CASE c = "0" -> 0 [] c = "1" -> 1 [] c = "2" -> 2 [] c = "3" -> 3
      [] c = "4" -> 4 [] c = "5" -> 5 [] c = "6" -> 6 [] c = "7" -> 7
      [] c = "8" -> 8 [] c = "9" -> 9
      [] c \in {"a", "A"} -> 10 [] c \in {"b", "B"} -> 11
      [] c \in {"c", "C"} -> 12 [] c \in {"d", "D"} -> 13
      [] c \in {"e", "E"} -> 14 [] c \in {"f", "F"} -> 15
      [] OTHER -> -1

RECURSIVE HexValue(_)
HexValue(ds) ==
    IF ds = <<>> THEN 0
    ELSE HexValue(SubSeq(ds, 1, Len(ds) - 1)) * 16 + DigitValue(ds[Len(ds)])

RECURSIVE Significant(_)
Significant(ds) ==
    IF ds # <<>> /\ ds[1] = "0" THEN Significant(Tail(ds)) ELSE ds

\* usize::from_str_radix(s, 16): an optional "+", then hex digits; the value
\* overflows when it needs more than UsizeHexDigits digits
from_str_radix(s) ==
    LET ds == IF Len(s) > 1 /\ s[1] = "+" THEN Tail(s) ELSE s
    IN  IF ds = <<>> \/ \E i \in 1 .. Len(ds) : DigitValue(ds[i]) < 0
        THEN [ok |-> FALSE, val |-> 0]
        ELSE IF Len(Significant(ds)) > UsizeHexDigits
        THEN [ok |-> FALSE, val |-> 0]
        ELSE [ok |-> TRUE, val |-> HexValue(Significant(ds))]

\* kind "Some" with the address, "None", or "Panic" (the slice [0..2] of a
\* one-character token)
get_break_addr(c) ==
    IF Len(c) < 2 THEN [kind |-> "None", addr |-> 0]
    ELSE LET addr_str == c[2]
         IN  IF Len(addr_str) < 2 THEN [kind |-> "Panic", addr |-> 0]
             ELSE IF SubSeq(addr_str, 1, 2) # <<"0", "x">>
             THEN [kind |-> "None", addr |-> 0]
             ELSE LET r == from_str_radix(SubSeq(addr_str, 3, Len(addr_str)))
                  IN  IF r.ok THEN [kind |-> "Some", addr |-> r.val]
                      ELSE [kind |-> "None", addr |-> 0]

\* set_break_addr without the test for an address registered already
set_break_addr_overwrites(i, c) ==
    LET a == get_break_addr(c)
    IN  CASE a.kind = "Some" ->
               [ret |-> TRUE, info |-> [i EXCEPT !.brk_addr = Some(a.addr)], panic |-> FALSE]
          [] a.kind = "Panic" -> [ret |-> FALSE, info |-> i, panic |-> TRUE]
          [] OTHER -> [ret |-> FALSE, info |-> i, panic |-> FALSE]

\* ret: the bool returned; info: the record afterwards; panic: get_break_addr panicked
set_break_addr(i, c) ==
    IF i.brk_addr # None THEN [ret |-> FALSE, info |-> i, panic |-> FALSE]
    ELSE LET a == get_break_addr(c)
         IN  CASE a.kind = "Some" ->
                    [ret |-> TRUE, info |-> [i EXCEPT !.brk_addr = Some(a.addr)], panic |-> FALSE]
               [] a.kind = "Panic" -> [ret |-> FALSE, info |-> i, panic |-> TRUE]
               [] OTHER -> [ret |-> FALSE, info |-> i, panic |-> FALSE]

---------------------------------------------------------------------------
(* The child processes *)

Terminated == {"exited", "signaled"}

Alive(q) == q.st \in {"forked", "running", "stopped"}

\* the process fork() returns in the parent: it still runs the debugger's code
Forked == [st |-> "forked", traced |-> FALSE, rip |-> 0, mem |-> image]

\* the debugger process ends: its tracees are detached and resumed
Detach(ps) ==
    [p \in DOMAIN ps |->
        IF ps[p].traced /\ Alive(ps[p])
        THEN [ps[p] EXCEPT !.traced = FALSE,
                           !.st = IF @ = "stopped" THEN "running" ELSE @]
        ELSE ps[p]]

\* run_dbg returns (p = "done": Ok, "error": Err) or panics, with result r
\* and the children ps
Finish(p, r, ps) ==
    /\ pc' = p
    /\ res' = r
    /\ procs' = Detach(ps)

\* the child side of fork: traceme, then execvp of the target, which stops
\* the traced child at its first instruction; a failed execvp panics
ChildExec(p) ==
    /\ procs[p].st = "forked"
    /\ \E ok \in BOOLEAN :
        procs' = [procs EXCEPT ![p] =
                    IF ok THEN [st |-> "stopped", traced |-> TRUE, rip |-> 0, mem |-> image]
                    ELSE [@ EXCEPT !.st = "exited", !.traced = TRUE]]
    /\ UNCHANGED <<pc, state, info, image, rl, cmd, ops, res>>

\* a resumed child executes the instruction at rip: int3 advances rip by one
\* and raises SIGTRAP (a trace-stop under ptrace, fatal without a tracer);
\* past its last instruction the target exits
ChildStep(p) ==
    /\ procs[p].st = "running"
    /\ LET q == procs[p]
       IN  procs' = [procs EXCEPT ![p] =
                IF q.rip \notin DOMAIN q.mem THEN [q EXCEPT !.st = "exited"]
                ELSE IF q.mem[q.rip] = INT3
                THEN [q EXCEPT !.rip = q.rip + 1,
                               !.st = IF q.traced THEN "stopped" ELSE "signaled"]
                ELSE [q EXCEPT !.rip = q.rip + 1]]
    /\ UNCHANGED <<pc, state, info, image, rl, cmd, ops, res>>

---------------------------------------------------------------------------
(* ZDbg<Running> *)

\* "Ok", or the message of the Err
set_break(i) == IF i.brk_addr = None THEN "Ok" ELSE "TODO"

step_and_break(i) == [res |-> "Ok", state |-> "Running", info |-> i]

\* do_continue of the debugger with info i, o the operations issued so far:
\* it ends blocked in wait_child's waitpid
do_continue(i, o) ==
    LET s == step_and_break(i)
    IN  IF s.res # "Ok"
        THEN /\ Finish("error", s.res, procs)
             /\ info' = i
             /\ ops' = o
             /\ UNCHANGED state
        ELSE IF s.state = "Running"
        THEN /\ procs' = [procs EXCEPT ![s.info.pid].st = "running"]   \* ptrace::cont
             /\ info' = s.info
             /\ ops' = o \cup {"cont", "waitpid"}
             /\ pc' = "wait_child"
             /\ res' = "none"
             /\ UNCHANGED state
        ELSE /\ state' = s.state
             /\ info' = s.info
             /\ ops' = o
             /\ pc' = "prompt"
             /\ res' = "Ok"
             /\ UNCHANGED procs

\* wait_child that stays Running when the child has terminated
wait_child_keeps_running ==
    /\ pc = "wait_child"
    /\ \/ /\ procs[info.pid].st \in Terminated
          /\ procs' = [procs EXCEPT ![info.pid].st = "reaped"]
       \/ /\ procs[info.pid].st = "stopped"
          /\ UNCHANGED procs
    /\ state' = "Running"
    /\ pc' = "prompt"
    /\ res' = "Ok"
    /\ UNCHANGED <<info, image, rl, cmd, ops>>

\* waitpid(self.info.pid) has returned
wait_child ==
    /\ pc = "wait_child"
    /\ \/ /\ procs[info.pid].st \in Terminated
          /\ procs' = [procs EXCEPT ![info.pid].st = "reaped"]
          /\ state' = "NotRunning"
       \/ /\ procs[info.pid].st = "stopped"
          /\ state' = "Running"
          /\ UNCHANGED procs
    /\ pc' = "prompt"
    /\ res' = "Ok"
    /\ UNCHANGED <<info, image, rl, cmd, ops>>

\* one ptrace::kill of do_exit's loop, then blocked in its waitpid: the
\* request kills the child, or only resumes it
do_exit(o) ==
    /\ \E outcome \in {"signaled", "running"} :
        procs' = [procs EXCEPT ![info.pid].st = outcome]
    /\ ops' = o \cup {"kill", "waitpid"}
    /\ pc' = "exit_wait"
    /\ res' = "none"
    /\ UNCHANGED <<state, info>>

\* do_exit that returns Ok(()) after its first wait, whatever the status
do_exit_wait_once ==
    /\ pc = "exit_wait"
    /\ procs[info.pid].st \in Terminated \cup {"stopped"}
    /\ Finish("done", "Ok",
              IF procs[info.pid].st \in Terminated
              THEN [procs EXCEPT ![info.pid].st = "reaped"] ELSE procs)
    /\ state' = IF rl = "line" THEN "Exit" ELSE state
    /\ UNCHANGED <<info, ops, image, rl, cmd>>

\* do_exit that, on a stop, waits again without another kill
do_exit_wait_no_kill ==
    /\ pc = "exit_wait"
    /\ \/ /\ procs[info.pid].st \in Terminated
          /\ Finish("done", "Ok", [procs EXCEPT ![info.pid].st = "reaped"])
          /\ state' = IF rl = "line" THEN "Exit" ELSE state
          /\ UNCHANGED <<info, ops>>
       \/ /\ procs[info.pid].st = "stopped"
          /\ UNCHANGED <<pc, state, info, procs, ops, res>>
    /\ UNCHANGED <<image, rl, cmd>>

\* do_exit's waitpid has returned: Ok(()) on termination, else kill again.
\* After Ok(()) do_cmd returns State::Exit and the loop breaks; the call of
\* main.rs:43 drops the result and breaks
do_exit_wait ==
    /\ pc = "exit_wait"
    /\ \/ /\ procs[info.pid].st \in Terminated
          /\ Finish("done", "Ok", [procs EXCEPT ![info.pid].st = "reaped"])
          /\ state' = IF rl = "line" THEN "Exit" ELSE state
          /\ UNCHANGED <<info, ops>>
       \/ /\ procs[info.pid].st = "stopped"
          /\ do_exit(ops)
    /\ UNCHANGED <<image, rl, cmd>>

Running_empty(c) ==
    /\ c = <<>>
    /\ ops' = {}
    /\ res' = "Ok"
    /\ UNCHANGED <<pc, state, info, procs>>

Running_do_break(c) ==
    /\ c # <<>> /\ c[1] \in BreakTok
    /\ ops' = {}
    /\ LET r == set_break_addr(info, c)
       IN  /\ info' = r.info
           /\ IF r.panic THEN Finish("panic", "none", procs) /\ UNCHANGED state
              ELSE IF r.ret /\ set_break(r.info) # "Ok"
              THEN Finish("error", set_break(r.info), procs) /\ UNCHANGED state
              ELSE res' = "Ok" /\ UNCHANGED <<pc, state, procs>>

\* continue that resumes the child and reports it gone without waiting for it
Running_continue_no_wait(c) ==
    /\ c # <<>> /\ c[1] \in ContinueTok
    /\ procs' = [procs EXCEPT ![info.pid].st = "running"]
    /\ ops' = {"cont"}
    /\ state' = "NotRunning"
    /\ res' = "Ok"
    /\ UNCHANGED <<pc, info>>

\* continue that resumes the child and returns Running without waiting for it
Running_continue_returns_early(c) ==
    /\ c # <<>> /\ c[1] \in ContinueTok
    /\ procs' = [procs EXCEPT ![info.pid].st = "running"]
    /\ ops' = {"cont"}
    /\ res' = "Ok"
    /\ UNCHANGED <<pc, state, info>>

Running_continue(c) ==
    /\ c # <<>> /\ c[1] \in ContinueTok
    /\ do_continue(info, {})

Running_registers(c) ==
    /\ c # <<>> /\ c[1] \in RegistersTok
    /\ ops' = {"getregs"}
    /\ res' = "Ok"
    /\ UNCHANGED <<pc, state, info, procs>>

do_stepi(c) ==
    /\ c # <<>> /\ c[1] \in StepiTok
    /\ ops' = {}
    /\ Finish("error", "TODO", procs)
    /\ UNCHANGED <<state, info>>

\* run in Running that forks as run in NotRunning does
Running_run_forks(c) ==
    /\ c # <<>> /\ c[1] \in RunTok
    /\ Len(procs) < MaxForks
    /\ procs' = Append(procs, Forked)
    /\ ops' = {"fork", "waitpid"}
    /\ pc' = "run_wait"
    /\ res' = "none"
    /\ UNCHANGED <<state, info>>

Running_run(c) ==
    /\ c # <<>> /\ c[1] \in RunTok
    /\ ops' = {}
    /\ res' = "Ok"
    /\ UNCHANGED <<pc, state, info, procs>>

Running_exit(c) ==
    /\ c # <<>> /\ c[1] \in ExitTok
    /\ do_exit({})

Running_common(c) ==
    /\ c # <<>>
    /\ c[1] \notin BreakTok \cup ContinueTok \cup RegistersTok \cup StepiTok
                     \cup RunTok \cup ExitTok
    /\ ops' = {}
    /\ res' = "Ok"
    /\ UNCHANGED <<pc, state, info, procs>>

---------------------------------------------------------------------------
(* ZDbg<NotRunning> *)

NotRunning_empty(c) ==
    /\ c = <<>>
    /\ ops' = {}
    /\ res' = "Ok"
    /\ UNCHANGED <<pc, state, info, procs>>

\* fork, then blocked in waitpid(child); fork()? may fail
do_run(c) ==
    /\ c # <<>> /\ c[1] \in RunTok
    /\ \/ /\ Len(procs) < MaxForks
          /\ procs' = Append(procs, Forked)
          /\ ops' = {"fork", "waitpid"}
          /\ pc' = "run_wait"
          /\ res' = "none"
       \/ /\ ops' = {"fork"}
          /\ Finish("error", "fork", procs)
    /\ UNCHANGED <<state, info>>

\* do_run that writes the trap opcode at the registered address before
\* set_break, without saving the word it overwrites
do_run_wait_patches ==
    /\ pc = "run_wait"
    /\ LET child == Len(procs)
       IN  \/ /\ procs[child].st = "stopped"
              /\ LET i == [info EXCEPT !.pid = child]
                 IN  IF set_break(i) = "Ok" THEN do_continue(i, ops)
                     ELSE /\ Finish("error", set_break(i),
                                    IF i.brk_addr[1] \in DOMAIN procs[child].mem
                                    THEN [procs EXCEPT ![child].mem[i.brk_addr[1]] = INT3]
                                    ELSE procs)
                          /\ info' = i
                          /\ UNCHANGED <<state, ops>>
           \/ /\ procs[child].st \in Terminated
              /\ Finish("error", "launch", [procs EXCEPT ![child].st = "reaped"])
              /\ UNCHANGED <<state, info, ops>>
    /\ UNCHANGED <<image, rl, cmd>>

\* do_run that gives the debugger back as NotRunning when the launch failed
do_run_wait_recovers ==
    /\ pc = "run_wait"
    /\ LET child == Len(procs)
       IN  \/ /\ procs[child].st = "stopped"
              /\ LET i == [info EXCEPT !.pid = child]
                 IN  IF set_break(i) = "Ok" THEN do_continue(i, ops)
                     ELSE /\ Finish("error", set_break(i), procs)
                          /\ info' = i
                          /\ UNCHANGED <<state, ops>>
           \/ /\ procs[child].st \in Terminated
              /\ procs' = [procs EXCEPT ![child].st = "reaped"]
              /\ pc' = "prompt"
              /\ res' = "launch"
              /\ UNCHANGED <<state, info, ops>>
    /\ UNCHANGED <<image, rl, cmd>>

\* do_run after waitpid(child) has returned
do_run_wait ==
    /\ pc = "run_wait"
    /\ LET child == Len(procs)
       IN  \/ /\ procs[child].st = "stopped"
              /\ LET i == [info EXCEPT !.pid = child]
                 IN  IF set_break(i) = "Ok" THEN do_continue(i, ops)
                     ELSE /\ Finish("error", set_break(i), procs)
                          /\ info' = i
                          /\ UNCHANGED <<state, ops>>
           \/ /\ procs[child].st \in Terminated
              /\ Finish("error", "launch", [procs EXCEPT ![child].st = "reaped"])
              /\ UNCHANGED <<state, info, ops>>
    /\ UNCHANGED <<image, rl, cmd>>

NotRunning_do_break(c) ==
    /\ c # <<>> /\ c[1] \in BreakTok
    /\ ops' = {}
    /\ LET r == set_break_addr(info, c)
       IN  /\ info' = r.info
           /\ IF r.panic THEN Finish("panic", "none", procs) /\ UNCHANGED state
              ELSE res' = "Ok" /\ UNCHANGED <<pc, state, procs>>

NotRunning_exit(c) ==
    /\ c # <<>> /\ c[1] \in ExitTok
    /\ state' = "Exit"
    /\ ops' = {}
    /\ Finish("done", "Ok", procs)
    /\ UNCHANGED info

\* the rejected commands reading the registers of the last child
NotRunning_performs(c) ==
    /\ c # <<>> /\ c[1] \in ContinueTok \cup StepiTok \cup RegistersTok
    /\ ops' = {"getregs"}
    /\ res' = "Ok"
    /\ UNCHANGED <<pc, state, info, procs>>

NotRunning_rejected(c) ==
    /\ c # <<>> /\ c[1] \in ContinueTok \cup StepiTok \cup RegistersTok
    /\ ops' = {}
    /\ res' = "Ok"
    /\ UNCHANGED <<pc, state, info, procs>>

NotRunning_common(c) ==
    /\ c # <<>>
    /\ c[1] \notin RunTok \cup BreakTok \cup ExitTok \cup ContinueTok
                     \cup StepiTok \cup RegistersTok
    /\ ops' = {}
    /\ res' = "Ok"
    /\ UNCHANGED <<pc, state, info, procs>>

---------------------------------------------------------------------------
(* run_dbg: the command loop *)

\* readline returned Ok(line), tokenized to c
Dispatch(c) ==
    /\ pc = "prompt"
    /\ rl' = "line"
    /\ cmd' = c
    /\ UNCHANGED image

NotRunning_do_cmd(c) ==
    /\ Dispatch(c)
    /\ state = "NotRunning"
    /\ \/ NotRunning_empty(c)
       \/ do_run(c)
       \/ NotRunning_do_break(c)
       \/ NotRunning_exit(c)
       \/ NotRunning_rejected(c)
       \/ NotRunning_common(c)

Running_do_cmd(c) ==
    /\ Dispatch(c)
    /\ state = "Running"
    /\ \/ Running_empty(c)
       \/ Running_do_break(c)
       \/ Running_continue(c)
       \/ Running_registers(c)
       \/ do_stepi(c)
       \/ Running_run(c)
       \/ Running_exit(c)
       \/ Running_common(c)

\* readline returned Err(ReadlineError::Interrupted)
ReadInterrupted ==
    /\ pc = "prompt"
    /\ rl' = "interrupted"
    /\ UNCHANGED <<pc, state, info, procs, image, cmd, ops, res>>

\* the end of input breaking out of the loop in every state
ReadEof_breaks ==
    /\ pc = "prompt"
    /\ \E kind \in {"eof", "error"} : rl' = kind
    /\ ops' = {}
    /\ Finish("done", "Ok", procs)
    /\ UNCHANGED <<state, info, cmd, image>>

\* readline returned end of input or another error
ReadEof ==
    /\ pc = "prompt"
    /\ \E kind \in {"eof", "error"} : rl' = kind
    /\ IF state = "Running"
       THEN /\ cmd' = <<<<"e", "x", "i", "t">>>>
            /\ do_exit({})
       ELSE /\ ops' = {}
            /\ Finish("done", "Ok", procs)
            /\ UNCHANGED <<state, info, cmd>>
    /\ UNCHANGED image

Init ==
    /\ pc = "prompt"
    /\ state = "NotRunning"
    /\ info = [pid |-> 0, brk_addr |-> None, brk_val |-> ZeroWord, filename |-> "target"]
    /\ procs = <<>>
    /\ image \in Images
    /\ rl = "none"
    /\ cmd = <<>>
    /\ ops = {}
    /\ res = "none"

Next ==
    \/ \E c \in Lines : NotRunning_do_cmd(c)
    \/ \E c \in Lines : Running_do_cmd(c)
    \/ ReadInterrupted
    \/ ReadEof
    \/ do_run_wait
    \/ wait_child
    \/ do_exit_wait
    \/ \E p \in DOMAIN procs : ChildExec(p)
    \/ \E p \in DOMAIN procs : ChildStep(p)

Spec == Init /\ [][Next]_vars

\* waitpid returns once the child has a status to report, and a resumed
\* child keeps executing
FairSpec ==
    /\ Spec
    /\ WF_vars(do_exit_wait)
    /\ WF_vars(\E p \in DOMAIN procs : ChildStep(p))

TypeOK ==
    /\ pc \in {"prompt", "run_wait", "wait_child", "exit_wait", "done", "error", "panic"}
    /\ state \in {"NotRunning", "Running", "Exit"}
    /\ image \in Images
    /\ cmd \in Lines
    /\ Len(procs) <= MaxForks

---------------------------------------------------------------------------
(* Properties *)

Recognized ==
    RunTok \cup BreakTok \cup ContinueTok \cup RegistersTok \cup StepiTok
        \cup ExitTok \cup HelpTok

\* a step that dispatches the line cmd'
Dispatched == pc = "prompt" /\ rl' = "line"

NoneAlive(ps) == \A p \in DOMAIN ps : ~Alive(ps[p])

\* C1: whenever the command loop is at the prompt with state Running,
\* info.pid is the pid of a child forked by run that is traced and is in a
\* trace-stop (alive, not executing, not terminated).
C1_RunningIsStopped ==
    (pc = "prompt" /\ state = "Running") =>
        /\ info.pid \in DOMAIN procs
        /\ procs[info.pid].traced
        /\ procs[info.pid].st = "stopped"

\* registers was performed in Running and the child is still in its trace-stop
C1_Witness ==
    /\ pc = "prompt" /\ state = "Running"
    /\ ops = {"getregs"}
    /\ procs[info.pid].st = "stopped"

\* C2: the state goes from Running to NotRunning only in the return of
\* wait_child for a continue or stepi command, when waitpid has reported the
\* termination of the child info.pid, which is reaped by that wait.
C2_OnlyOnTermination ==
    [][(state = "Running" /\ state' = "NotRunning") =>
            /\ pc = "wait_child"
            /\ cmd # <<>> /\ cmd[1] \in ContinueTok \cup StepiTok
            /\ "waitpid" \in ops
            /\ procs[info.pid].st \in Terminated
            /\ procs'[info.pid].st = "reaped"]_vars

\* continue was performed in Running and ended in NotRunning
C2_Witness ==
    /\ pc = "prompt" /\ state = "NotRunning"
    /\ cmd # <<>> /\ cmd[1] \in ContinueTok
    /\ ops = {"cont", "waitpid"}
    /\ procs[info.pid].st = "reaped"

\* the commands that are not performed in state s
NotPerformed(s, c) ==
    \/ c = <<>>
    \/ /\ c # <<>>
       /\ s = "NotRunning"
       /\ \/ c[1] \in ContinueTok \cup StepiTok \cup RegistersTok \cup HelpTok
          \/ c[1] \notin Recognized
    \/ /\ c # <<>>
       /\ s = "Running"
       /\ \/ c[1] \in RunTok \cup HelpTok
          \/ c[1] \notin Recognized

\* C3: a command that is not performed in the current state (NotRunning:
\* continue, stepi, registers, help, the empty line, an unrecognized token;
\* Running: run, help, the empty line, an unrecognized token) returns the
\* same state with the same DbgInfo, changes no process and issues no fork,
\* ptrace or wait operation.
C3_RejectedIsNoOp ==
    [][(Dispatched /\ NotPerformed(state, cmd')) =>
            /\ pc' = "prompt"
            /\ state' = state
            /\ info' = info
            /\ procs' = procs
            /\ ops' = {}]_vars

\* registers was rejected in NotRunning after a child had run and terminated
C3_Witness ==
    /\ pc = "prompt" /\ state = "NotRunning"
    /\ rl = "line"
    /\ cmd # <<>> /\ cmd[1] \in RegistersTok
    /\ ops = {}
    /\ info.pid \in DOMAIN procs

\* C4: at most one child is not yet reaped at any time, and a child is
\* forked only by run dispatched in NotRunning (never by run in Running).
C4_OneChild ==
    /\ [](Cardinality({p \in DOMAIN procs : procs[p].st # "reaped"}) <= 1)
    /\ [][Len(procs') > Len(procs) =>
            /\ Dispatched
            /\ state = "NotRunning"
            /\ cmd' # <<>> /\ cmd'[1] \in RunTok
            /\ Len(procs') = Len(procs) + 1]_vars

\* run was rejected in Running while another child could still be forked
C4_Witness ==
    /\ pc = "prompt" /\ state = "Running"
    /\ cmd # <<>> /\ cmd[1] \in RunTok
    /\ ops = {}
    /\ Len(procs) < MaxForks
    /\ procs[info.pid].st = "stopped"

\* C5: once an address is registered it never changes, and every break
\* command dispatched afterwards returns the same state with the same
\* DbgInfo and touches no process.
C5_OneBreakpoint ==
    [][info.brk_addr # None =>
            /\ info'.brk_addr = info.brk_addr
            /\ (Dispatched /\ cmd' # <<>> /\ cmd'[1] \in BreakTok) =>
                    /\ pc' = "prompt"
                    /\ state' = state
                    /\ info' = info
                    /\ procs' = procs]_vars

\* break 0x2 was dispatched with 0x1 registered, which still is
C5_Witness ==
    /\ pc = "prompt"
    /\ info.brk_addr = Some(1)
    /\ Len(cmd) = 2 /\ cmd[1] \in BreakTok /\ cmd[2] = <<"0", "x", "2">>
    /\ res = "Ok"

\* C6: the state becomes Exit from Running only in the return of do_exit's
\* wait that reported the termination of the child, which is then reaped;
\* it becomes Exit from NotRunning without any process operation; in state
\* Exit no child is alive.
C6_ExitAfterReap ==
    /\ [][(state # "Exit" /\ state' = "Exit") =>
            IF state = "Running"
            THEN /\ pc = "exit_wait"
                 /\ {"kill", "waitpid"} \subseteq ops
                 /\ procs[info.pid].st \in Terminated
                 /\ procs'[info.pid].st = "reaped"
            ELSE /\ procs' = procs
                 /\ ops' = {}]_vars
    /\ [](state = "Exit" => NoneAlive(procs))

\* exit was dispatched in Running and the session reached Exit
C6_Witness ==
    /\ state = "Exit"
    /\ "kill" \in ops
    /\ procs[info.pid].st = "reaped"

\* C7: on end of input or a read error at the prompt, in state Running the
\* loop dispatches exit (kill, then wait) and ends only when the child has
\* been reaped; in state NotRunning it ends without any process operation.
C7_EofExits ==
    /\ [][(pc = "prompt" /\ rl' \in {"eof", "error"}) =>
            IF state = "Running"
            THEN /\ pc' = "exit_wait"
                 /\ cmd' = <<<<"e", "x", "i", "t">>>>
                 /\ {"kill", "waitpid"} \subseteq ops'
            ELSE /\ pc' = "done"
                 /\ procs' = procs
                 /\ ops' = {}]_vars
    /\ []((pc = "done" /\ rl \in {"eof", "error"}) => NoneAlive(procs))

\* the input ended in Running and the loop has ended with the child reaped
C7_Witness ==
    /\ pc = "done" /\ state = "Running"
    /\ rl = "eof"
    /\ "kill" \in ops
    /\ procs[info.pid].st = "reaped"

\* C8: when the session has ended, by exit, by the end of input or by an
\* error returned out of the command loop, no child forked by the debugger
\* is alive.
C8_NoOrphan ==
    pc \in {"done", "error"} => NoneAlive(procs)

\* the word a read of the child's memory returns at address a: bytes past the code read as zero
Peek(mem, a) ==
    [i \in 1 .. WordBytes |-> IF (a + i - 1) \in DOMAIN mem THEN mem[a + i - 1] ELSE 0]

\* the word w with its lowest-order byte replaced by the trap opcode
Patched(w) == [w EXCEPT ![1] = INT3]

\* the steps that call set_break: do_run after the first stop of the child,
\* and break in Running registering an address
CallsSetBreak ==
    \/ pc = "run_wait" /\ procs[Len(procs)].st = "stopped"
    \/ /\ Dispatched /\ state = "Running"
       /\ cmd' # <<>> /\ cmd'[1] \in BreakTok
       /\ set_break_addr(info, cmd').ret

\* C10: set_break succeeds; with no address registered it changes nothing,
\* with an address registered it stores the word read at that address in
\* brk_val and leaves in memory that word with its lowest-order byte
\* replaced by the trap opcode.
C10_Install ==
    [][CallsSetBreak =>
            LET p == info'.pid
                a == info'.brk_addr
            IN  /\ pc' # "error"
                /\ IF a = None
                   THEN /\ info'.brk_val = info.brk_val
                        /\ procs'[p].mem = procs[p].mem
                   ELSE /\ info'.brk_val = Peek(procs[p].mem, a[1])
                        /\ Peek(procs'[p].mem, a[1]) = Patched(Peek(procs[p].mem, a[1]))]_vars

\* Every path that registers an address reaches set_break's Err before any
\* wait_child: the debugger never waits for, nor holds stopped, a child with
\* a breakpoint registered.
NeverRunsWithBreakpoint ==
    (pc \in {"wait_child", "exit_wait"} \/ (pc = "prompt" /\ state = "Running"))
        => info.brk_addr = None

\* C12: run in NotRunning whose child reports its first trace-stop records
\* the pid of the child, installs the registered breakpoint (if any) into the
\* memory of the child, resumes the child and waits for it: so that break A,
\* run reaches the wait that stops the target at A.
C12_RunInstalls ==
    [][(pc = "run_wait" /\ procs[Len(procs)].st = "stopped") =>
            LET child == Len(procs)
                a == info.brk_addr
            IN  /\ info'.pid = child
                /\ info'.brk_addr = a
                /\ pc' = "wait_child"
                /\ procs'[child].st = "running"
                /\ a # None =>
                     Peek(procs'[child].mem, a[1]) = Patched(Peek(procs[child].mem, a[1]))]_vars

\* the wait of do_run returns for a child that terminated before any stop
LaunchFailed == pc = "run_wait" /\ procs[Len(procs)].st \in Terminated

\* C13 (as claimed): a run whose child terminates before its first
\* trace-stop leaves the debugger at the prompt in NotRunning with its
\* DbgInfo retained, accepting further commands.
C13_LaunchFailureRecovers ==
    [][LaunchFailed =>
            /\ pc' = "prompt"
            /\ state' = "NotRunning"
            /\ info' = info]_vars

\* C13 (amended): a run whose child terminates before its first trace-stop
\* reaps the child and returns the launch-failure Err without recording a
\* pid or entering Running; the Err is returned out of the command loop, so
\* the session ends and dispatches no further command.
C13_LaunchFailureEnds ==
    /\ [][LaunchFailed =>
            /\ pc' = "error"
            /\ res' = "launch"
            /\ state' = "NotRunning"
            /\ info' = info
            /\ procs'[Len(procs)].st = "reaped"]_vars
    /\ [][pc = "error" => (pc' = "error" /\ cmd' = cmd /\ info' = info /\ state' = state)]_vars

\* the launch failed and the session has ended with that error
C13_Witness ==
    /\ pc = "error" /\ res = "launch"
    /\ state = "NotRunning"
    /\ procs[Len(procs)].st = "reaped"

\* the tokens written 0x followed by hex digits whose value fits a usize
WellFormedAddr(t) ==
    /\ Len(t) >= 3
    /\ t[1] = "0" /\ t[2] = "x"
    /\ \A k \in 3 .. Len(t) : DigitValue(t[k]) >= 0
    /\ Len(Significant(SubSeq(t, 3, Len(t)))) <= UsizeHexDigits

\* C14: a break command dispatched with no address registered registers
\* exactly the value of its argument when that is 0x followed by hex digits
\* that fit; with any other argument, or none, it leaves the DbgInfo and the
\* state as they were and the loop goes back to the prompt.
C14_ParseOrReject ==
    [][(Dispatched /\ cmd' # <<>> /\ cmd'[1] \in BreakTok /\ info.brk_addr = None) =>
            IF Len(cmd') >= 2 /\ WellFormedAddr(cmd'[2])
            THEN info'.brk_addr = Some(HexValue(SubSeq(cmd'[2], 3, Len(cmd'[2]))))
            ELSE /\ info' = info
                 /\ state' = state
                 /\ pc' = "prompt"]_vars

\* C15: stepi dispatched in Running issues one single step of the child and
\* waits for it (the state returned is that of the wait), leaving the
\* registered address as it was.
C15_StepiSteps ==
    [][(Dispatched /\ state = "Running" /\ cmd' # <<>> /\ cmd'[1] \in StepiTok) =>
            /\ pc' = "wait_child"
            /\ {"step", "waitpid"} \subseteq ops'
            /\ procs'[info.pid].st = "running"
            /\ info'.brk_addr = info.brk_addr]_vars

\* C16: break with a well-formed address and no address registered
\* registers the address and returns the state it was dispatched in; in
\* NotRunning it touches no process, in Running it patches the trap opcode
\* into the word of the stopped child at that address.
C16_BreakRegisters ==
    [][(/\ Dispatched
        /\ cmd' # <<>> /\ cmd'[1] \in BreakTok
        /\ info.brk_addr = None
        /\ Len(cmd') >= 2 /\ WellFormedAddr(cmd'[2])) =>
            LET a == HexValue(SubSeq(cmd'[2], 3, Len(cmd'[2])))
            IN  /\ info'.brk_addr = Some(a)
                /\ state' = state
                /\ pc' = "prompt"
                /\ IF state = "NotRunning" THEN procs' = procs
                   ELSE Peek(procs'[info.pid].mem, a) =
                            Patched(Peek(procs[info.pid].mem, a))]_vars

\* the requests that need the child to be in a trace-stop
PtraceOps == {"cont", "step", "getregs", "kill"}

\* the child the debugger is blocked on
Waited == IF pc = "run_wait" THEN Len(procs) ELSE info.pid

\* C17: the debugger and its child alternate. At the prompt no child is
\* executing; a command issues ptrace requests only in Running, with the
\* child in its trace-stop; do_run and do_exit resume or kill the child only
\* when it is stopped; every resume of a traced child leaves the debugger
\* blocked in waitpid, which it leaves only when the child has stopped or
\* terminated.
C17_Alternation ==
    /\ [](pc = "prompt" => \A p \in DOMAIN procs : procs[p].st \notin {"forked", "running"})
    /\ [][(pc = "prompt" /\ rl' \in {"line", "eof", "error"} /\ ops' \cap PtraceOps # {}) =>
            /\ state = "Running"
            /\ procs[info.pid].traced
            /\ procs[info.pid].st = "stopped"]_vars
    /\ [][(pc = "run_wait" /\ "cont" \in ops') => procs[Len(procs)].st = "stopped"]_vars
    /\ [][(/\ pc = "exit_wait" /\ pc' = "exit_wait"
           /\ procs[info.pid].st # "running"
           /\ procs' # procs) => procs[info.pid].st = "stopped"]_vars
    /\ [][\A p \in DOMAIN procs :
            (procs[p].st = "stopped" /\ procs'[p].st = "running" /\ procs'[p].traced) =>
                /\ pc' \in {"wait_child", "exit_wait"}
                /\ "waitpid" \in ops'
                /\ p = info'.pid]_vars
    /\ [][(/\ pc \in {"run_wait", "wait_child", "exit_wait"}
           /\ (pc' # pc \/ state' # state \/ info' # info)) =>
            procs[Waited].st \in Terminated \cup {"stopped"}]_vars

\* continue resumed the child, waited, and is back at the prompt with the
\* child stopped again
C17_Witness ==
    /\ pc = "prompt" /\ state = "Running"
    /\ cmd # <<>> /\ cmd[1] \in ContinueTok
    /\ ops = {"cont", "waitpid"}
    /\ procs[info.pid].st = "stopped"
    /\ procs[info.pid].rip > 1

\* the code of the target with the trap opcode written at address a
WithTrap(a) == IF a \in DOMAIN image THEN [image EXCEPT ![a] = INT3] ELSE image

\* C18: set_break is called for a registered address only when the word of
\* the child at that address is the one the target was loaded with (no trap
\* written by the debugger); brk_val never holds a word other than the
\* initial zero or that original word; and the memory of a child differs
\* from the code it was loaded with only by the trap opcode at the registered
\* address, with brk_val holding the original word.
C18_InstallDiscipline ==
    /\ [][(CallsSetBreak /\ info'.brk_addr # None) =>
            Peek(procs[info'.pid].mem, info'.brk_addr[1]) =
                Peek(image, info'.brk_addr[1])]_vars
    /\ [](info.brk_val # ZeroWord =>
            (info.brk_addr # None /\ info.brk_val = Peek(image, info.brk_addr[1])))
    /\ [](\A p \in DOMAIN procs :
            procs[p].mem # image =>
                /\ info.brk_addr # None
                /\ p = info.pid
                /\ procs[p].mem = WithTrap(info.brk_addr[1])
                /\ info.brk_val = Peek(image, info.brk_addr[1]))

\* set_break was called for a registered address in the second child, run
\* after the first had terminated
C18_Witness ==
    /\ pc = "error" /\ res = "TODO"
    /\ cmd # <<>> /\ cmd[1] \in RunTok
    /\ info.brk_addr # None
    /\ Len(procs) = 2 /\ info.pid = 2
    /\ procs[1].st = "reaped"

\* C19: do_exit returns only from a wait that reported Exited or Signaled,
\* and once exit has been dispatched in Running the loop of kill and wait
\* ends: the child is reaped and the session ends, in state Exit when exit
\* was a command.
C19_ExitCompletes ==
    /\ [][(pc = "exit_wait" /\ pc' # "exit_wait") =>
            /\ pc' = "done"
            /\ res' = "Ok"
            /\ procs[info.pid].st \in Terminated]_vars
    /\ (pc = "exit_wait") ~>
            (/\ pc = "done"
             /\ info.pid \in DOMAIN procs
             /\ procs[info.pid].st = "reaped"
             /\ (rl = "line" => state = "Exit"))

\* a kill only resumed the child, which has stopped again: the loop of
\* do_exit has to kill once more
C19_Witness ==
    /\ pc = "exit_wait"
    /\ {"kill", "waitpid"} \subseteq ops
    /\ procs[info.pid].st = "stopped"

\* pid is written only by do_run for a child that reported a trace-stop, a
\* registered address is never cleared or changed, and the target path
\* never changes
InfoFrame ==
    /\ info'.pid # info.pid =>
            /\ pc = "run_wait"
            /\ procs[Len(procs)].st = "stopped"
            /\ info'.pid = Len(procs)
    /\ info.brk_addr # None => info'.brk_addr = info.brk_addr
    /\ info'.filename = info.filename

\* C20: the DbgInfo changes only by InfoFrame, and an address that is
\* registered when run gets the first stop of a new child is installed in
\* that child, which is then resumed.
C20_InfoLifecycle ==
    [][/\ InfoFrame
       /\ (pc = "run_wait" /\ procs[Len(procs)].st = "stopped" /\ info.brk_addr # None) =>
            /\ pc' = "wait_child"
            /\ Peek(procs'[Len(procs)].mem, info.brk_addr[1]) =
                    Patched(Peek(image, info.brk_addr[1]))]_vars

\* the frame part of C20 alone
InfoFrameAlways == [][InfoFrame]_vars

====
